---- MODULE Spec2Model ----
(***************************************************************************)
(* Model of the comment section of the blog client (Comments component):   *)
(* the comment tree builder organizeComments and the paginated fetch that  *)
(* feeds it.                                                               *)
(*                                                                         *)
(* A comment record is [id, parent_id, created_at, is_deleted].  Ids are   *)
(* positive integers; parent_id = NoParent stands for null / undefined.    *)
(* created_at is the stored timestamp in microseconds; getTime is what     *)
(* new Date(created_at).getTime() yields, a whole number of milliseconds.  *)
(*                                                                         *)
(* organizeComments builds objects that refer to each other through their  *)
(* replies arrays.  The model keeps the object graph as commentMap, a      *)
(* function from id to node, a node holding the ids in its replies array,  *)
(* and rootComments, the ids in the returned array.                        *)
(***************************************************************************)
EXTENDS Integers, Sequences, FiniteSets, TLC

VARIABLES
  flatComments,  \* organizeComments: the argument
  organized,     \* organizeComments: the returned forest
  orgPc,         \* "input" before the call, "done" after it
  orgI,          \* organizeComments: the position of the running forEach
  returned,      \* history: the forests returned by the finished calls
  stored,        \* the comments table rows of the post
  comments,      \* Comments state: the displayed forest
  offset,        \* Comments state: offset
  hasMore,       \* Comments state: hasMore
  loading,       \* Comments state: loading
  inflight,      \* fetchComments calls that have not returned yet
  toast,         \* the last notification shown
  loaded,        \* history: the records the displayed forest was built from
  lastFetch,     \* history: the kind of the last fetch that returned
  likes,         \* the comment_likes rows of the user: the comments liked
  newComment,    \* Comments state: newComment
  replyingTo,    \* Comments state: replyingTo
  replyContent,  \* Comments state: replyContent
  editingId,     \* Comments state: editingId
  editContent,   \* Comments state: editContent
  submitting,    \* Comments state: submitting
  writes,        \* calls of the writing handlers that have not returned yet
  opsLeft,       \* how many more writing handlers the user starts
  session,       \* the session the auth client holds: a user id or NoUser
  authUser,      \* AuthProvider state: user
  authProfile,   \* AuthProvider state: profile
  authLoading,   \* AuthProvider state: loading
  getSessionPc,  \* the getSession() promise of the mount effect
  authEvents,    \* auth state changes not yet handed to the callback
  profileFetches,\* fetchProfile calls that have not returned yet
  location,      \* the router's location: pathname and state.from
  rendered,      \* what the route element of the location produces
  loginCall,     \* LoginPage: the position of handleLogin, its from, and
                 \* as history the protected path wanted when it started
  logoutPc,      \* Navbar: the position of handleLogout
  notice,        \* the toasts shown since the last user action
  wanted,        \* history: the protected path opened last, if any
  lastCall,      \* history: the last auth call that returned, and how
  postLikes,     \* the likes table: the users with a row for the post
  likesCount,    \* DetailPage state: likesCount
  liked,         \* DetailPage state: isLiked
  likeCalls,     \* DetailPage: handleLike calls that have not returned yet
  likeFetches,   \* DetailPage: fetchLikes calls that have not returned yet
  viewCountPc,   \* DetailPage: the view count update started by fetchPost
  clicksLeft,    \* how many more times the user clicks the like button
  likeFailed,    \* history: a request of the detail page has failed
  likeToast,     \* DetailPage: the last toast of handleLike
  likeAnimating, \* DetailPage state: likeAnimating
  animTimers,    \* DetailPage: the setTimeout calls that have not fired yet
  query,         \* SearchBar state: query
  isFocused,     \* SearchBar state: isFocused
  recentSearches,\* SearchBar state: recentSearches
  selectedIndex, \* SearchBar state: selectedIndex
  localStorage,  \* localStorage: the list under the key recentSearches
  inputFocus,    \* the DOM: the search input has the focus
  searchPc,      \* SearchBar: "mounted" until its load effect has run
  navigated      \* the q of the navigate() call of the last step, if any

orgVars == <<flatComments, organized, orgPc, orgI, returned>>

\* The state of the comment section that fetchComments leaves alone.
sectionVars ==
  <<likes, newComment, replyingTo, replyContent, editingId, editContent,
    submitting, writes, opsLeft>>

commentsVars ==
  <<stored, comments, offset, hasMore, loading, inflight, toast, loaded,
    lastFetch, sectionVars>>

authVars ==
  <<session, authUser, authProfile, authLoading, getSessionPc, authEvents,
    profileFetches, location, rendered, loginCall, logoutPc, notice, wanted,
    lastCall>>

detailVars ==
  <<postLikes, likesCount, liked, likeCalls, likeFetches, viewCountPc,
    clicksLeft, likeFailed, likeToast, likeAnimating, animTimers>>

searchVars ==
  <<query, isFocused, recentSearches, selectedIndex, localStorage,
    inputFocus, searchPc, navigated>>

\* The variables other than those of the builder, of the comment section,
\* of the auth provider and its pages.
notOrgVars == <<commentsVars, authVars, detailVars, searchVars>>

notCommentsVars == <<orgVars, authVars, detailVars, searchVars>>

notAuthVars == <<orgVars, commentsVars, detailVars, searchVars>>

notDetailVars == <<orgVars, commentsVars, authVars, searchVars>>

notSearchVars == <<orgVars, commentsVars, authVars, detailVars>>

vars == <<orgVars, commentsVars, authVars, detailVars, searchVars>>

\* ------------------------------------------------------------------ bounds
MaxComments == 3
MaxThread == 5
MaxStored == 22
MaxInflight == 2
MaxPages == 2
MaxReplier == 3

\* --------------------------------------------------------------- helpers
NoParent == 0
COMMENTS_PER_PAGE == 20
Missing == MaxComments + 1

Min(a, b) == IF a <= b THEN a ELSE b

getTime(created_at) == created_at \div 1000

\* ------------------------------------------------------- organizeComments
\* First pass: commentMap.set(comment.id, {...comment, replies: [], depth: 0})
\* for every record in turn, so that an id holds the last record set for it.
IndexComments(flat) ==
  [x \in {flat[i].id : i \in 1..Len(flat)} |->
     LET last == CHOOSE i \in 1..Len(flat) :
                   /\ flat[i].id = x
                   /\ \A j \in (i + 1)..Len(flat) : flat[j].id # x
     IN [id |-> flat[last].id, parent_id |-> flat[last].parent_id,
         created_at |-> flat[last].created_at,
         is_deleted |-> flat[last].is_deleted,
         replies |-> <<>>, depth |-> 0]]

\* Variant: a reply always goes into its immediate parent's replies.
AttachTarget_AlwaysParent(m, comment) ==
  IF comment.parent_id # NoParent /\ comment.parent_id \in DOMAIN m
  THEN comment.parent_id
  ELSE NoParent

\* Variant: a deleted parent counts as not found.
AttachTarget_SkipDeletedParent(m, comment) ==
  IF comment.parent_id # NoParent /\ comment.parent_id \in DOMAIN m
     /\ ~m[comment.parent_id].is_deleted
  THEN LET parent == m[comment.parent_id]
       IN IF parent.depth >= 1 /\ parent.parent_id # NoParent
             /\ parent.parent_id \in DOMAIN m
          THEN parent.parent_id
          ELSE comment.parent_id
  ELSE NoParent

\* Variant: the parent's parent takes the reply whatever the parent's depth.
AttachTarget_AnyGrandparent(m, comment) ==
  IF comment.parent_id # NoParent /\ comment.parent_id \in DOMAIN m
  THEN LET parent == m[comment.parent_id]
       IN IF parent.parent_id # NoParent /\ parent.parent_id \in DOMAIN m
          THEN parent.parent_id
          ELSE comment.parent_id
  ELSE NoParent

\* The array the comment is pushed into: the id of the node that owns it,
\* or NoParent for rootComments.
AttachTarget(m, comment) ==
  IF comment.parent_id # NoParent /\ comment.parent_id \in DOMAIN m
  THEN LET parent == m[comment.parent_id]
       IN IF parent.depth >= 1 /\ parent.parent_id # NoParent
             /\ parent.parent_id \in DOMAIN m
          THEN parent.parent_id
          ELSE comment.parent_id
  ELSE NoParent

\* Variant: the depth is not capped at 2.
AttachDepth_Unclamped(m, comment) ==
  IF comment.parent_id # NoParent /\ comment.parent_id \in DOMAIN m
  THEN m[comment.parent_id].depth + 1
  ELSE m[comment.id].depth

\* The depth assigned to the comment when it is processed.
AttachDepth(m, comment) ==
  IF comment.parent_id # NoParent /\ comment.parent_id \in DOMAIN m
  THEN Min(m[comment.parent_id].depth + 1, 2)
  ELSE m[comment.id].depth

\* Variant: a comment whose parent is not found is pushed nowhere.
AttachComment_DropOrphans(st, comment) ==
  LET m  == st.commentMap
      t  == AttachTarget(m, comment)
      m1 == [m EXCEPT ![comment.id].depth = AttachDepth(m, comment)]
  IN IF t = NoParent
     THEN [commentMap |-> m1,
           rootComments |-> IF comment.parent_id = NoParent
                            THEN Append(st.rootComments, comment.id)
                            ELSE st.rootComments]
     ELSE [commentMap |-> [m1 EXCEPT ![t].replies = Append(@, comment.id)],
           rootComments |-> st.rootComments]

\* One iteration of the second forEach.
AttachComment(st, comment) ==
  LET m  == st.commentMap
      t  == AttachTarget(m, comment)
      m1 == [m EXCEPT ![comment.id].depth = AttachDepth(m, comment)]
  IN IF t = NoParent
     THEN [commentMap |-> m1,
           rootComments |-> Append(st.rootComments, comment.id)]
     ELSE [commentMap |-> [m1 EXCEPT ![t].replies = Append(@, comment.id)],
           rootComments |-> st.rootComments]

\* The second forEach from record i to record k, st being the state before
\* record i (st is evaluated before the iteration is entered; a map with no
\* node has no record to attach).
RECURSIVE AttachFrom(_, _, _, _)
AttachFrom(flat, i, k, st) ==
  IF i > k \/ DOMAIN st.commentMap = {} THEN st
  ELSE AttachFrom(flat, i + 1, k, AttachComment(st, flat[i]))

\* The state after the first k iterations of the second forEach.
AttachAll(flat, k) ==
  AttachFrom(flat, 1, k,
             [commentMap |-> IndexComments(flat), rootComments |-> <<>>])

\* Array.prototype.sort with sortByDate: a stable sort, newest first.  The
\* element at position i moves behind the elements that compare before it
\* and the equal ones that stood before it.
SortRank(m, s, i) ==
  Cardinality({j \in 1..Len(s) :
     \/ getTime(m[s[j]].created_at) - getTime(m[s[i]].created_at) > 0
     \/ /\ getTime(m[s[j]].created_at) - getTime(m[s[i]].created_at) = 0
        /\ j <= i})

sortByDate(m, s) ==
  LET rank == [i \in 1..Len(s) |-> SortRank(m, s, i)]
  IN [r \in 1..Len(s) |-> s[CHOOSE i \in 1..Len(s) : rank[i] = r]]

Range(s) == {s[i] : i \in 1..Len(s)}

\* rootComments.sort; every root's replies sorted; every reply's replies
\* sorted.  Sorting an array does not change which ids it holds, so the
\* arrays that get sorted are those of the roots and of the roots' replies.
SortLevels(st) ==
  LET m       == st.commentMap
      roots   == Range(st.rootComments)
      level1  == UNION {Range(m[r].replies) : r \in roots}
      touched == roots \cup level1
  IN [commentMap |->
        [x \in DOMAIN m |->
           IF x \in touched
           THEN [m[x] EXCEPT !.replies = sortByDate(m, m[x].replies)]
           ELSE m[x]],
      rootComments |-> sortByDate(m, st.rootComments)]

organizeComments(flat) == SortLevels(AttachAll(flat, Len(flat)))

EmptyForest == [commentMap |-> <<>>, rootComments |-> <<>>]

\* ------------------------------------------------------------ the inputs
ParentIds(n) == (0..n) \cup {Missing}

\* created_at along an input: rising, falling, all equal, equal in pairs.
TimePatterns(n) ==
  {[i \in 1..n |-> 1000 * i], [i \in 1..n |-> 1000 * (n + 1 - i)],
   [i \in 1..n |-> 1000], [i \in 1..n |-> 1000 * ((i + 1) \div 2)]}

\* created_at and is_deleted of the records of an input: a pattern of
\* timestamps with nothing deleted, or timestamps rising along the input
\* with any records deleted.
Decorations(n) ==
  {<<t, {}>> : t \in TimePatterns(n)}
    \cup {<<[i \in 1..n |-> 1000 * i], d>> : d \in SUBSET (1..n)}

\* Any records with the unique ids 1..n, the record at position i having
\* id i: parent_id may be null, unresolvable, the record itself or part of
\* a cycle.
Inputs(n) ==
  {[i \in 1..n |-> [id |-> i, parent_id |-> p[i], created_at |-> td[1][i],
                    is_deleted |-> i \in td[2]]] :
     p \in [1..n -> ParentIds(n)], td \in Decorations(n)}

\* Stored threads: comment k is the k-th created and is a root or replies
\* to one of the two comments created just before it (back[k] comments
\* back); the records come in any order.
ThreadParent(back, k) ==
  IF back[k] = 0 \/ k - back[k] < 1 THEN NoParent ELSE k - back[k]

ThreadInputs(n) ==
  {[i \in 1..n |-> [id |-> q[i], parent_id |-> ThreadParent(back, q[i]),
                    created_at |-> 1000 * q[i], is_deleted |-> FALSE]] :
     back \in [1..n -> 0..2], q \in Permutations(1..n)}

\* ------------------------------------------------------ Comments state
\* The forest as the nested objects held in the comments state.
RECURSIVE ToTree(_, _, _)
ToTree(f, id, fuel) ==
  LET n == f.commentMap[id]
  IN [id |-> n.id, parent_id |-> n.parent_id, created_at |-> n.created_at,
      is_deleted |-> n.is_deleted, depth |-> n.depth,
      replies |-> IF fuel = 0 THEN <<>>
                  ELSE [i \in 1..Len(n.replies) |->
                          ToTree(f, n.replies[i], fuel - 1)]]

Display(f) ==
  [i \in 1..Len(f.rootComments) |->
     ToTree(f, f.rootComments[i], Cardinality(DOMAIN f.commentMap))]

\* .order('created_at', { ascending: false }): the rows by created_at,
\* newest first (created_at is unique among the rows).
NewestFirst(rows) ==
  LET rank == [i \in 1..Len(rows) |->
                 Cardinality({j \in 1..Len(rows) :
                                rows[j].created_at >= rows[i].created_at})]
  IN [r \in 1..Len(rows) |-> rows[CHOOSE i \in 1..Len(rows) : rank[i] = r]]

\* .range(currentOffset, currentOffset + COMMENTS_PER_PAGE - 1)
SelectPage(rows, currentOffset) ==
  SubSeq(NewestFirst(rows), currentOffset + 1,
         Min(currentOffset + COMMENTS_PER_PAGE, Len(rows)))

\* The rows of a post in the order of their creation: comment k is the
\* k-th created; the comments in repliers reply to the comment created
\* just before them.
StoredRows(n, repliers) ==
  [k \in 1..n |->
     [id |-> k, parent_id |-> IF k \in repliers THEN k - 1 ELSE NoParent,
      created_at |-> 1000 * k, is_deleted |-> FALSE]]

\* No draft, no reply or edit under way, no write in flight.
SectionIdle ==
  /\ likes = {}
  /\ newComment = ""
  /\ replyingTo = NoParent
  /\ replyContent = ""
  /\ editingId = NoParent
  /\ editContent = ""
  /\ submitting = FALSE
  /\ writes = <<>>
  /\ opsLeft = 0

CommentsInit ==
  /\ \E n \in 0..MaxStored :
       \E repliers \in {{}} \cup {{k} : k \in 2..Min(n, MaxReplier)} :
         stored = StoredRows(n, repliers)
  /\ comments = <<>>
  /\ offset = 0
  /\ hasMore = FALSE
  /\ loading = TRUE
  /\ inflight = <<>>
  /\ toast = "none"
  /\ loaded = <<>>
  /\ lastFetch = "none"
  /\ SectionIdle

RemoveAt(s, i) == SubSeq(s, 1, i - 1) \o SubSeq(s, i + 1, Len(s))

\* A call of fetchComments(loadMore) up to its first await: currentOffset
\* is computed and the request sent.  The call keeps the comments of the
\* render that created it, which only a load-more reads.
FetchCall(loadMore) ==
  [loadMore |-> loadMore,
   currentOffset |-> IF loadMore THEN offset ELSE 0,
   comments |-> IF loadMore THEN comments ELSE <<>>,
   loaded |-> IF loadMore THEN loaded ELSE <<>>,
   stage |-> "sent", data |-> <<>>, count |-> 0]

\* fetchComments(): useEffect on [postId, user], and the refresh after a
\* write.
RefreshFetch ==
  /\ Len(inflight) < MaxInflight
  /\ inflight' = Append(inflight, FetchCall(FALSE))
  /\ UNCHANGED <<stored, comments, offset, hasMore, loading, toast, loaded,
                 lastFetch>>
  /\ UNCHANGED <<sectionVars, notCommentsVars>>

\* fetchComments(true): the load-more button, rendered when the list is
\* shown and hasMore holds.
LoadMoreClick ==
  /\ ~loading
  /\ comments # <<>>
  /\ hasMore
  /\ offset < MaxPages * COMMENTS_PER_PAGE
  /\ Len(inflight) < MaxInflight
  /\ inflight' = Append(inflight, FetchCall(TRUE))
  /\ UNCHANGED <<stored, comments, offset, hasMore, loading, toast, loaded,
                 lastFetch>>
  /\ UNCHANGED <<sectionVars, notCommentsVars>>

\* The backend runs the select of a request.
ServerSelect ==
  \E i \in 1..Len(inflight) :
    /\ inflight[i].stage = "sent"
    /\ inflight' = [inflight EXCEPT
         ![i].stage = "answered",
         ![i].data = SelectPage(stored, inflight[i].currentOffset),
         ![i].count = Len(stored)]
    /\ UNCHANGED <<stored, comments, offset, hasMore, loading, toast, loaded,
                   lastFetch>>
    /\ UNCHANGED <<sectionVars, notCommentsVars>>

\* The backend answers a request with an error.
ServerError ==
  \E i \in 1..Len(inflight) :
    /\ inflight[i].stage = "sent"
    /\ inflight' = [inflight EXCEPT ![i].stage = "failed"]
    /\ UNCHANGED <<stored, comments, offset, hasMore, loading, toast, loaded,
                   lastFetch>>
    /\ UNCHANGED <<sectionVars, notCommentsVars>>

\* Variant: the response of a call is dropped when a call issued later is
\* still in flight.
FetchReturn_LatestIssuedOnly ==
  \E i \in 1..Len(inflight) :
    LET r == inflight[i]
        organizedComments == Display(organizeComments(r.data))
    IN /\ r.stage = "answered"
       /\ comments' = IF i < Len(inflight) THEN comments
                      ELSE IF r.loadMore THEN r.comments \o organizedComments
                      ELSE organizedComments
       /\ hasMore' = (r.count > r.currentOffset + COMMENTS_PER_PAGE)
       /\ offset' = IF r.loadMore THEN r.currentOffset + COMMENTS_PER_PAGE
                    ELSE offset
       /\ loading' = FALSE
       /\ loaded' = IF r.loadMore THEN r.loaded \o r.data ELSE r.data
       /\ lastFetch' = IF r.loadMore THEN "more" ELSE "refresh"
       /\ inflight' = RemoveAt(inflight, i)
       /\ UNCHANGED <<stored, toast>>
       /\ UNCHANGED <<sectionVars, notCommentsVars>>

\* fetchComments after its awaits, on data: the page is organized and set
\* or appended, hasMore and offset are set, loading is cleared.  The like
\* queries of the page only fill likes_count and is_liked, which the forest
\* does not depend on, and their errors are not looked at.
FetchReturn ==
  \E i \in 1..Len(inflight) :
    LET r == inflight[i]
        organizedComments == Display(organizeComments(r.data))
    IN /\ r.stage = "answered"
       /\ comments' = IF r.loadMore THEN r.comments \o organizedComments
                      ELSE organizedComments
       /\ hasMore' = (r.count > r.currentOffset + COMMENTS_PER_PAGE)
       /\ offset' = IF r.loadMore THEN r.currentOffset + COMMENTS_PER_PAGE
                    ELSE offset
       /\ loading' = FALSE
       /\ loaded' = IF r.loadMore THEN r.loaded \o r.data ELSE r.data
       /\ lastFetch' = IF r.loadMore THEN "more" ELSE "refresh"
       /\ inflight' = RemoveAt(inflight, i)
       /\ UNCHANGED <<stored, toast>>
       /\ UNCHANGED <<sectionVars, notCommentsVars>>

\* fetchComments after its awaits, on an error: catch and finally.
FetchFail ==
  \E i \in 1..Len(inflight) :
    /\ inflight[i].stage = "failed"
    /\ toast' = "error"
    /\ loading' = FALSE
    /\ lastFetch' = "error"
    /\ inflight' = RemoveAt(inflight, i)
    /\ UNCHANGED <<stored, comments, offset, hasMore, loaded>>
    /\ UNCHANGED <<sectionVars, notCommentsVars>>

\* ------------------------------------------------- the app not mounted
NoUser == 0
NoProfile == 0
Users == {1}

Paths == {"/", "/login", "/write", "/mypage", "/edit"}
Protected == {"/write", "/mypage", "/edit"}

NoNotice == [error |-> 0, success |-> 0]

\* The app before it is mounted.
AuthIdle ==
  /\ session = NoUser
  /\ authUser = NoUser
  /\ authProfile = NoProfile
  /\ authLoading = TRUE
  /\ getSessionPc = "idle"
  /\ authEvents = <<>>
  /\ profileFetches = <<>>
  /\ location = [pathname |-> "/", from |-> "none"]
  /\ rendered = "public"
  /\ loginCall = [pc |-> "off", from |-> "/", wanted |-> "none"]
  /\ logoutPc = "off"
  /\ notice = NoNotice
  /\ wanted = "none"
  /\ lastCall = "none"

\* The detail page not mounted.
DetailIdle ==
  /\ postLikes = {}
  /\ likesCount = 0
  /\ liked = FALSE
  /\ likeCalls = <<>>
  /\ likeFetches = <<>>
  /\ viewCountPc = "off"
  /\ clicksLeft = 0
  /\ likeFailed = FALSE
  /\ likeToast = "none"
  /\ likeAnimating = FALSE
  /\ animTimers = 0

\* localStorage under the key recentSearches: nothing, or the JSON of a
\* list.
NoItem == [has |-> FALSE, list |-> <<>>]
Item(list) == [has |-> TRUE, list |-> list]

\* The search bar not mounted, nothing in localStorage.
SearchIdle ==
  /\ query = <<>>
  /\ isFocused = FALSE
  /\ recentSearches = <<>>
  /\ selectedIndex = -1
  /\ localStorage = NoItem
  /\ inputFocus = FALSE
  /\ searchPc = "off"
  /\ navigated = <<>>

\* Neither of them mounted.
PagesIdle == DetailIdle /\ SearchIdle

\* ------------------------------------------------------------ the builder
OrgInit ==
  /\ \/ \E n \in 0..MaxComments : flatComments \in Inputs(n)
     \/ \E n \in 1..MaxThread : flatComments \in ThreadInputs(n)
  /\ organized = EmptyForest
  /\ orgPc = "input"
  /\ orgI = 0
  /\ returned = <<>>

CallOrganize ==
  /\ orgPc = "input"
  /\ organized' = organizeComments(flatComments)
  /\ orgPc' = "done"
  /\ UNCHANGED <<flatComments, orgI, returned>>
  /\ UNCHANGED notOrgVars

\* The component before any row exists and before its first fetch.
CommentsIdle ==
  /\ stored = <<>>
  /\ comments = <<>>
  /\ offset = 0
  /\ hasMore = FALSE
  /\ loading = TRUE
  /\ inflight = <<>>
  /\ toast = "none"
  /\ loaded = <<>>
  /\ lastFetch = "none"
  /\ SectionIdle

OrgIdle ==
  /\ flatComments = <<>>
  /\ organized = EmptyForest
  /\ orgPc = "idle"
  /\ orgI = 0
  /\ returned = <<>>

\* organizeComments applied to the inputs.
Init == OrgInit /\ CommentsIdle /\ AuthIdle /\ PagesIdle

Next == CallOrganize

Spec == Init /\ [][Next]_vars

\* The comment section over a stored set of comments.
InitComments == OrgIdle /\ CommentsInit /\ AuthIdle /\ PagesIdle

NextComments ==
  \/ RefreshFetch
  \/ LoadMoreClick
  \/ ServerSelect
  \/ ServerError
  \/ FetchReturn
  \/ FetchFail

SpecComments == InitComments /\ [][NextComments]_vars

\* ------------------------------------------- the builder, step by step
MaxCalls == 2

\* The inputs of the stepwise runs: any parent_id, every pattern of
\* timestamps, nothing deleted.
StepInputs(n) ==
  {[i \in 1..n |-> [id |-> i, parent_id |-> p[i], created_at |-> t[i],
                    is_deleted |-> FALSE]] :
     p \in [1..n -> ParentIds(n)], t \in TimePatterns(n)}

StepInit ==
  /\ \E n \in 0..MaxComments : flatComments \in StepInputs(n)
  /\ organized = EmptyForest
  /\ orgPc = "input"
  /\ orgI = 0
  /\ returned = <<>>

\* Variant: rootComments lives outside the function and is not created
\* anew by a call.
StartOrganize_SharedRoots ==
  /\ orgPc \in {"input", "done"}
  /\ Len(returned) < MaxCalls
  /\ organized' = [commentMap |-> <<>>, rootComments |-> organized.rootComments]
  /\ orgPc' = "index"
  /\ orgI' = 1
  /\ UNCHANGED <<flatComments, returned>>
  /\ UNCHANGED notOrgVars

\* A call of organizeComments on the input: new Map(), [] and the start of
\* the first forEach.
StartOrganize ==
  /\ orgPc \in {"input", "done"}
  /\ Len(returned) < MaxCalls
  /\ organized' = EmptyForest
  /\ orgPc' = "index"
  /\ orgI' = 1
  /\ UNCHANGED <<flatComments, returned>>
  /\ UNCHANGED notOrgVars

\* commentMap.set(comment.id, {...comment, replies: [], depth: 0})
SetComment(m, comment) ==
  [x \in DOMAIN m \cup {comment.id} |->
     IF x = comment.id
     THEN [id |-> comment.id, parent_id |-> comment.parent_id,
           created_at |-> comment.created_at,
           is_deleted |-> comment.is_deleted, replies |-> <<>>, depth |-> 0]
     ELSE m[x]]

\* The first forEach: one record, or the end of the array.
IndexStep ==
  /\ orgPc = "index"
  /\ IF orgI <= Len(flatComments)
     THEN /\ organized' = [organized EXCEPT
               !.commentMap = SetComment(@, flatComments[orgI])]
          /\ orgI' = orgI + 1
          /\ orgPc' = orgPc
     ELSE /\ orgPc' = "attach"
          /\ orgI' = 1
          /\ organized' = organized
  /\ UNCHANGED <<flatComments, returned>>
  /\ UNCHANGED notOrgVars

\* Variant: the second forEach never gets past a record.
AttachStep_Stuck ==
  /\ orgPc = "attach"
  /\ UNCHANGED orgVars
  /\ UNCHANGED notOrgVars

\* The second forEach: one record, or the end of the array.
AttachStep ==
  /\ orgPc = "attach"
  /\ IF orgI <= Len(flatComments)
     THEN /\ organized' = AttachComment(organized, flatComments[orgI])
          /\ orgI' = orgI + 1
          /\ orgPc' = orgPc
     ELSE /\ orgPc' = "sort"
          /\ orgI' = 0
          /\ organized' = organized
  /\ UNCHANGED <<flatComments, returned>>
  /\ UNCHANGED notOrgVars

\* The sorts and the return.
SortStep ==
  /\ orgPc = "sort"
  /\ organized' = SortLevels(organized)
  /\ orgPc' = "done"
  /\ returned' = Append(returned, organized')
  /\ UNCHANGED <<flatComments, orgI>>
  /\ UNCHANGED notOrgVars

InitSteps == StepInit /\ CommentsIdle /\ AuthIdle /\ PagesIdle

NextSteps ==
  \/ StartOrganize
  \/ IndexStep
  \/ AttachStep
  \/ SortStep

\* organizeComments is synchronous: a call that has started runs on.
SpecSteps == InitSteps /\ [][NextSteps]_vars /\ WF_vars(NextSteps)

\* ---------------------------------------- AuthProvider, routes and login
MaxAuthEvents == 2
MaxProfileFetches == 2

\* Variant: the guard looks at user only.
ProtectedRoute_IgnoresLoading(user, isLoading) ==
  IF user = NoUser THEN "redirect" ELSE "children"

\* What ProtectedRoute returns: the loading screen, <Navigate to="/login">
\* or its children.
ProtectedRoute(user, isLoading) ==
  IF isLoading THEN "loading"
  ELSE IF user = NoUser THEN "redirect"
  ELSE "children"

\* The element of the route that matches the location.
RouteElement(loc, user, isLoading) ==
  IF loc.pathname \in Protected THEN ProtectedRoute(user, isLoading)
  ELSE "public"

\* No <Navigate> is waiting for its effect: the effects of a render run
\* before anything else does.
Settled == rendered # "redirect"

\* React renders again after the state changes of a step.
Render == rendered' = RouteElement(location', authUser', authLoading')

\* navigate(to): a navigation without state.
Arrive(to) ==
  /\ location' = [pathname |-> to, from |-> "none"]
  /\ wanted' = IF to \in Protected THEN to ELSE "none"

AuthInit ==
  /\ session \in Users \cup {NoUser}
  /\ authUser = NoUser
  /\ authProfile = NoProfile
  /\ authLoading = TRUE
  /\ getSessionPc = "pending"
  /\ authEvents \in {<<>>, <<session>>}
  /\ profileFetches = <<>>
  /\ \E p \in Paths : location = [pathname |-> p, from |-> "none"]
  /\ rendered = RouteElement(location, authUser, authLoading)
  /\ loginCall = [pc |-> "idle", from |-> "/", wanted |-> "none"]
  /\ logoutPc = "idle"
  /\ notice = NoNotice
  /\ wanted = IF location.pathname \in Protected THEN location.pathname
              ELSE "none"
  /\ lastCall = "none"

\* supabase.auth.getSession().then(...): user is set; with a session the
\* profile is fetched before loading is cleared.
GetSessionResolves ==
  /\ Settled
  /\ getSessionPc = "pending"
  /\ Len(profileFetches) < MaxProfileFetches
  /\ getSessionPc' = "done"
  /\ authUser' = session
  /\ IF session # NoUser
     THEN /\ profileFetches' =
               Append(profileFetches, [via |-> "getSession", userId |-> session])
          /\ authLoading' = authLoading
     ELSE /\ authLoading' = FALSE
          /\ profileFetches' = profileFetches
  /\ UNCHANGED <<session, authProfile, authEvents, location, loginCall,
                 logoutPc, notice, wanted, lastCall>>
  /\ UNCHANGED notAuthVars
  /\ Render

\* getSession() rejects: the promise has no catch, nothing is set.
GetSessionFails ==
  /\ Settled
  /\ getSessionPc = "pending"
  /\ getSessionPc' = "failed"
  /\ UNCHANGED <<session, authUser, authProfile, authLoading, authEvents,
                 profileFetches, location, rendered, loginCall, logoutPc,
                 notice, wanted, lastCall>>
  /\ UNCHANGED notAuthVars

\* Variant: loading is cleared only when the profile fetch brought data.
SessionProfileArrives_OnlyOnData ==
  \E i \in 1..Len(profileFetches), ok \in BOOLEAN :
    /\ Settled
    /\ profileFetches[i].via = "getSession"
    /\ authProfile' = IF ok THEN profileFetches[i].userId ELSE NoProfile
    /\ authLoading' = IF ok THEN FALSE ELSE authLoading
    /\ profileFetches' = RemoveAt(profileFetches, i)
    /\ UNCHANGED <<session, authUser, getSessionPc, authEvents, location,
                   loginCall, logoutPc, notice, wanted, lastCall>>
    /\ UNCHANGED notAuthVars
    /\ Render

\* fetchProfile(...).then(...) of the mount effect: the profile, or null
\* after an error, is set and loading is cleared.
SessionProfileArrives ==
  \E i \in 1..Len(profileFetches), ok \in BOOLEAN :
    /\ Settled
    /\ profileFetches[i].via = "getSession"
    /\ authProfile' = IF ok THEN profileFetches[i].userId ELSE NoProfile
    /\ authLoading' = FALSE
    /\ profileFetches' = RemoveAt(profileFetches, i)
    /\ UNCHANGED <<session, authUser, getSessionPc, authEvents, location,
                   loginCall, logoutPc, notice, wanted, lastCall>>
    /\ UNCHANGED notAuthVars
    /\ Render

\* The onAuthStateChange callback up to its await: user is set; with a
\* session the profile is fetched, without one profile and loading are
\* cleared.
AuthStateChange ==
  /\ Settled
  /\ authEvents # <<>>
  /\ Head(authEvents) # NoUser => Len(profileFetches) < MaxProfileFetches
  /\ authEvents' = Tail(authEvents)
  /\ authUser' = Head(authEvents)
  /\ IF Head(authEvents) # NoUser
     THEN /\ profileFetches' =
               Append(profileFetches,
                      [via |-> "event", userId |-> Head(authEvents)])
          /\ UNCHANGED <<authProfile, authLoading>>
     ELSE /\ authProfile' = NoProfile
          /\ authLoading' = FALSE
          /\ profileFetches' = profileFetches
  /\ UNCHANGED <<session, getSessionPc, location, loginCall, logoutPc,
                 notice, wanted, lastCall>>
  /\ UNCHANGED notAuthVars
  /\ Render

\* The onAuthStateChange callback after its await.
EventProfileArrives ==
  \E i \in 1..Len(profileFetches), ok \in BOOLEAN :
    /\ Settled
    /\ profileFetches[i].via = "event"
    /\ authProfile' = IF ok THEN profileFetches[i].userId ELSE NoProfile
    /\ authLoading' = FALSE
    /\ profileFetches' = RemoveAt(profileFetches, i)
    /\ UNCHANGED <<session, authUser, getSessionPc, authEvents, location,
                   loginCall, logoutPc, notice, wanted, lastCall>>
    /\ UNCHANGED notAuthVars
    /\ Render

\* ProtectedRoute returned <Navigate to="/login" state={{from}} replace />:
\* its effects run, the toast of ProtectedRoute and the navigation.
FollowRedirect ==
  /\ rendered = "redirect"
  /\ notice' = [notice EXCEPT !.error = @ + 1]
  /\ location' = [pathname |-> "/login", from |-> location.pathname]
  /\ rendered' = "public"
  /\ UNCHANGED <<session, authUser, authProfile, authLoading, getSessionPc,
                 authEvents, profileFetches, loginCall, logoutPc, wanted,
                 lastCall>>
  /\ UNCHANGED notAuthVars

\* The Navbar's links: the logo always, write and my page for a user, login
\* without one; the edit button of a post for a user.
NavbarNavigate ==
  \E to \in Paths :
    /\ Settled
    /\ ~authLoading
    /\ \/ to = "/"
       \/ to \in Protected /\ authUser # NoUser
       \/ to = "/login" /\ authUser = NoUser
    /\ Arrive(to)
    /\ notice' = NoNotice
    /\ UNCHANGED <<session, authUser, authProfile, authLoading, getSessionPc,
                   authEvents, profileFetches, loginCall, logoutPc, lastCall>>
    /\ UNCHANGED notAuthVars
    /\ Render

\* LoginPage: handleLogin up to its await; from is that of the render.
handleLogin ==
  /\ Settled
  /\ location.pathname = "/login"
  /\ loginCall.pc = "idle"
  /\ loginCall' = [pc |-> "sent",
                   from |-> IF location.from # "none" THEN location.from
                            ELSE "/",
                   wanted |-> wanted]
  /\ notice' = NoNotice
  /\ UNCHANGED <<session, authUser, authProfile, authLoading, getSessionPc,
                 authEvents, profileFetches, location, rendered, logoutPc,
                 wanted, lastCall>>
  /\ UNCHANGED notAuthVars

\* signInWithPassword succeeds: the client holds the session and tells its
\* subscribers.
SignInAccepted ==
  \E u \in Users :
    /\ Settled
    /\ loginCall.pc = "sent"
    /\ Len(authEvents) < MaxAuthEvents
    /\ session' = u
    /\ authEvents' = Append(authEvents, u)
    /\ loginCall' = [loginCall EXCEPT !.pc = "ok"]
    /\ UNCHANGED <<authUser, authProfile, authLoading, getSessionPc,
                   profileFetches, location, rendered, logoutPc, notice,
                   wanted, lastCall>>
    /\ UNCHANGED notAuthVars

\* signInWithPassword answers with an error.
SignInRejected ==
  /\ Settled
  /\ loginCall.pc = "sent"
  /\ loginCall' = [loginCall EXCEPT !.pc = "error"]
  /\ UNCHANGED <<session, authUser, authProfile, authLoading, getSessionPc,
                 authEvents, profileFetches, location, rendered, logoutPc,
                 notice, wanted, lastCall>>
  /\ UNCHANGED notAuthVars

\* Variant: a login always lands on the home page.
LoginReturn_AlwaysHome ==
  /\ Settled
  /\ loginCall.pc \in {"ok", "error"}
  /\ loginCall.pc = "ok" => authEvents = <<>>
  /\ IF loginCall.pc = "ok"
     THEN /\ notice' = [notice EXCEPT !.success = @ + 1]
          /\ Arrive("/")
          /\ lastCall' = "login ok"
     ELSE /\ notice' = [notice EXCEPT !.error = @ + 1]
          /\ UNCHANGED <<location, wanted>>
          /\ lastCall' = "login failed"
  /\ loginCall' = [loginCall EXCEPT !.pc = "idle"]
  /\ UNCHANGED <<session, authUser, authProfile, authLoading, getSessionPc,
                 authEvents, profileFetches, logoutPc>>
  /\ UNCHANGED notAuthVars
  /\ Render

\* handleLogin after its await: the success toast and navigate(from), or
\* the error toast.  The subscribers have been told of a sign-in before
\* signInWithPassword resolves.
LoginReturn ==
  /\ Settled
  /\ loginCall.pc \in {"ok", "error"}
  /\ loginCall.pc = "ok" => authEvents = <<>>
  /\ IF loginCall.pc = "ok"
     THEN /\ notice' = [notice EXCEPT !.success = @ + 1]
          /\ Arrive(loginCall.from)
          /\ lastCall' = "login ok"
     ELSE /\ notice' = [notice EXCEPT !.error = @ + 1]
          /\ UNCHANGED <<location, wanted>>
          /\ lastCall' = "login failed"
  /\ loginCall' = [loginCall EXCEPT !.pc = "idle"]
  /\ UNCHANGED <<session, authUser, authProfile, authLoading, getSessionPc,
                 authEvents, profileFetches, logoutPc>>
  /\ UNCHANGED notAuthVars
  /\ Render

\* Navbar: handleLogout up to the await in signOut.
handleLogout ==
  /\ Settled
  /\ ~authLoading
  /\ authUser # NoUser
  /\ logoutPc = "idle"
  /\ logoutPc' = "sent"
  /\ notice' = NoNotice
  /\ UNCHANGED <<session, authUser, authProfile, authLoading, getSessionPc,
                 authEvents, profileFetches, location, rendered, loginCall,
                 wanted, lastCall>>
  /\ UNCHANGED notAuthVars

\* supabase.auth.signOut() succeeds: the session is gone and the
\* subscribers are told.
SignOutDone ==
  /\ Settled
  /\ logoutPc = "sent"
  /\ Len(authEvents) < MaxAuthEvents
  /\ session' = NoUser
  /\ authEvents' = Append(authEvents, NoUser)
  /\ logoutPc' = "ok"
  /\ UNCHANGED <<authUser, authProfile, authLoading, getSessionPc,
                 profileFetches, location, rendered, loginCall, notice,
                 wanted, lastCall>>
  /\ UNCHANGED notAuthVars

\* supabase.auth.signOut() fails: it resolves to {error}, or it throws.
SignOutFails ==
  \E how \in {"error", "threw"} :
    /\ Settled
    /\ logoutPc = "sent"
    /\ logoutPc' = how
    /\ UNCHANGED <<session, authUser, authProfile, authLoading, getSessionPc,
                   authEvents, profileFetches, location, rendered, loginCall,
                   notice, wanted, lastCall>>
    /\ UNCHANGED notAuthVars

\* signOut after its await and handleLogout after signOut: the value that
\* signOut() resolved to is not looked at, so user and profile are cleared
\* unless it threw; signOut catches what is thrown, so handleLogout goes on
\* to its success toast and navigate('/').
LogoutReturn ==
  /\ Settled
  /\ logoutPc \in {"ok", "error", "threw"}
  /\ IF logoutPc = "threw"
     THEN UNCHANGED <<authUser, authProfile>>
     ELSE authUser' = NoUser /\ authProfile' = NoProfile
  /\ notice' = [notice EXCEPT !.success = @ + 1]
  /\ Arrive("/")
  /\ lastCall' = IF logoutPc = "ok" THEN "logout ok" ELSE "logout failed"
  /\ logoutPc' = "idle"
  /\ UNCHANGED <<session, authLoading, getSessionPc, authEvents,
                 profileFetches, loginCall>>
  /\ UNCHANGED notAuthVars
  /\ Render

InitAuth == OrgIdle /\ CommentsIdle /\ AuthInit /\ PagesIdle

NextAuth ==
  \/ GetSessionResolves
  \/ GetSessionFails
  \/ SessionProfileArrives
  \/ AuthStateChange
  \/ EventProfileArrives
  \/ FollowRedirect
  \/ NavbarNavigate
  \/ handleLogin
  \/ SignInAccepted
  \/ SignInRejected
  \/ LoginReturn
  \/ handleLogout
  \/ SignOutDone
  \/ SignOutFails
  \/ LogoutReturn

SpecAuth == InitAuth /\ [][NextAuth]_vars

\* The same, where a profile fetch that was started completes and the
\* effects of a render run.
SpecAuthLive ==
  InitAuth /\ [][NextAuth]_vars
    /\ WF_vars(SessionProfileArrives) /\ WF_vars(FollowRedirect)

\* ------------------------------------------ the comment section's writes
MaxOps == 1
MaxSectionRows == 1
MaxWrites == 1

OtherUser == 2

\* The rows of the post when the section has mounted and its effect has
\* called fetchComments(): written by one user, the
\* second a reply to the first or not.
SectionRows(n, owner, nested) ==
  [k \in 1..n |->
     [id |-> k, parent_id |-> IF nested /\ k = 2 THEN 1 ELSE NoParent,
      created_at |-> 1000 * k, is_deleted |-> FALSE, user_id |-> owner,
      edited |-> FALSE]]

\* useAuth() once the auth state has settled on user u.
AuthSettled(u) ==
  /\ session = u
  /\ authUser = u
  /\ authProfile = u
  /\ authLoading = FALSE
  /\ getSessionPc = "done"
  /\ authEvents = <<>>
  /\ profileFetches = <<>>
  /\ location = [pathname |-> "/post", from |-> "none"]
  /\ rendered = "public"
  /\ loginCall = [pc |-> "off", from |-> "/", wanted |-> "none"]
  /\ logoutPc = "off"
  /\ notice = NoNotice
  /\ wanted = "none"
  /\ lastCall = "none"

SectionInit ==
  /\ \E n \in 0..MaxSectionRows, owner \in Users \cup {OtherUser},
        nested \in BOOLEAN :
       stored = SectionRows(n, owner, nested)
  /\ comments = <<>>
  /\ offset = 0
  /\ hasMore = FALSE
  /\ loading = TRUE
  /\ loaded = <<>>
  /\ inflight = <<FetchCall(FALSE)>>
  /\ toast = "none"
  /\ lastFetch = "none"
  /\ likes = {}
  /\ newComment = ""
  /\ replyingTo = NoParent
  /\ replyContent = ""
  /\ editingId = NoParent
  /\ editContent = ""
  /\ submitting = FALSE
  /\ writes = <<>>
  /\ opsLeft = MaxOps

\* The comments renderComment is called for, each with the nesting level it
\* is rendered at.
RECURSIVE ShownIn(_, _)
ShownIn(trees, level) ==
  UNION {{[id |-> trees[i].id, level |-> level,
           is_deleted |-> trees[i].is_deleted]}
           \cup ShownIn(trees[i].replies, level + 1) : i \in 1..Len(trees)}

Shown == IF loading THEN {} ELSE ShownIn(comments, 0)

\* The comments rendered with their content and buttons: not deleted, not
\* being edited.
WithButtons == {c \in Shown : ~c.is_deleted /\ editingId # c.id}

\* comment.user_id of a comment shown: the user_id of its row.
OwnerOf(id) ==
  IF \E k \in 1..Len(stored) : stored[k].id = id
  THEN stored[CHOOSE k \in 1..Len(stored) : stored[k].id = id].user_id
  ELSE NoUser

WriteCall(op, id, isLiked) ==
  [op |-> op, id |-> id, isLiked |-> isLiked, userId |-> authUser,
   stage |-> "sent"]

\* onChange of the new comment's textarea: empty or some text.
TypeNewComment ==
  \E text \in {"", "text"} :
    /\ authUser # NoUser
    /\ ~submitting
    /\ newComment # text
    /\ newComment' = text
    /\ UNCHANGED <<stored, comments, offset, hasMore, loading, inflight,
                   toast, loaded, lastFetch, likes, replyingTo, replyContent,
                   editingId, editContent, submitting, writes, opsLeft>>
    /\ UNCHANGED notCommentsVars

\* The reply button, offered below nesting level 2 to a user.
handleReplyClick ==
  \E c \in WithButtons :
    /\ authUser # NoUser
    /\ c.level < 2
    /\ replyingTo' = c.id
    /\ replyContent' = "text"
    /\ UNCHANGED <<stored, comments, offset, hasMore, loading, inflight,
                   toast, loaded, lastFetch, likes, newComment, editingId,
                   editContent, submitting, writes, opsLeft>>
    /\ UNCHANGED notCommentsVars

\* The cancel button of the reply box.
CancelReply ==
  /\ authUser # NoUser
  /\ \E c \in Shown : c.id = replyingTo
  /\ replyingTo' = NoParent
  /\ replyContent' = ""
  /\ UNCHANGED <<stored, comments, offset, hasMore, loading, inflight,
                 toast, loaded, lastFetch, likes, newComment, editingId,
                 editContent, submitting, writes, opsLeft>>
  /\ UNCHANGED notCommentsVars

\* The edit button of one's own comment.
StartEdit ==
  \E c \in WithButtons :
    /\ authUser # NoUser
    /\ OwnerOf(c.id) = authUser
    /\ editingId' = c.id
    /\ editContent' = "text"
    /\ UNCHANGED <<stored, comments, offset, hasMore, loading, inflight,
                   toast, loaded, lastFetch, likes, newComment, replyingTo,
                   replyContent, submitting, writes, opsLeft>>
    /\ UNCHANGED notCommentsVars

\* The cancel button of the edit box.
CancelEdit ==
  /\ \E c \in Shown : c.id = editingId /\ ~c.is_deleted
  /\ editingId' = NoParent
  /\ editContent' = ""
  /\ UNCHANGED <<stored, comments, offset, hasMore, loading, inflight,
                 toast, loaded, lastFetch, likes, newComment, replyingTo,
                 replyContent, submitting, writes, opsLeft>>
  /\ UNCHANGED notCommentsVars

\* A writing handler can be started: the user has one more to start and
\* the calls in flight leave room.
CanWrite == opsLeft > 0 /\ Len(writes) < MaxWrites

\* handleSubmit up to its await: the form is there for a user, its button
\* enabled unless submitting or the text is blank.
handleSubmit ==
  /\ authUser # NoUser
  /\ ~submitting
  /\ newComment = "text"
  /\ CanWrite
  /\ submitting' = TRUE
  /\ writes' = Append(writes, WriteCall("submit", NoParent, FALSE))
  /\ opsLeft' = opsLeft - 1
  /\ UNCHANGED <<stored, comments, offset, hasMore, loading, inflight,
                 toast, loaded, lastFetch, likes, newComment, replyingTo,
                 replyContent, editingId, editContent>>
  /\ UNCHANGED notCommentsVars

\* handleReplySubmit up to its await: the reply box is under the comment
\* replyingTo names.
handleReplySubmit ==
  /\ authUser # NoUser
  /\ ~submitting
  /\ replyContent = "text"
  /\ \E c \in Shown : c.id = replyingTo
  /\ CanWrite
  /\ submitting' = TRUE
  /\ writes' = Append(writes, WriteCall("reply", replyingTo, FALSE))
  /\ opsLeft' = opsLeft - 1
  /\ UNCHANGED <<stored, comments, offset, hasMore, loading, inflight,
                 toast, loaded, lastFetch, likes, newComment, replyingTo,
                 replyContent, editingId, editContent>>
  /\ UNCHANGED notCommentsVars

\* handleUpdate up to its await: the save button of the edit box.
handleUpdate ==
  /\ editContent = "text"
  /\ \E c \in Shown : c.id = editingId /\ ~c.is_deleted
  /\ CanWrite
  /\ writes' = Append(writes, WriteCall("update", editingId, FALSE))
  /\ opsLeft' = opsLeft - 1
  /\ UNCHANGED <<stored, comments, offset, hasMore, loading, inflight,
                 toast, loaded, lastFetch, likes, newComment, replyingTo,
                 replyContent, editingId, editContent, submitting>>
  /\ UNCHANGED notCommentsVars

\* handleDelete up to its await, the confirm answered with yes: the delete
\* button of one's own comment.
handleDelete ==
  \E c \in WithButtons :
    /\ authUser # NoUser
    /\ OwnerOf(c.id) = authUser
    /\ CanWrite
    /\ writes' = Append(writes, WriteCall("delete", c.id, FALSE))
    /\ opsLeft' = opsLeft - 1
    /\ UNCHANGED <<stored, comments, offset, hasMore, loading, inflight,
                   toast, loaded, lastFetch, likes, newComment, replyingTo,
                   replyContent, editingId, editContent, submitting>>
    /\ UNCHANGED notCommentsVars

\* handleLike up to its await: without a user the toast and nothing else;
\* isLiked is what the comment shows.
handleLike ==
  \E c \in WithButtons, isLiked \in BOOLEAN :
    IF authUser = NoUser
    THEN /\ toast' = "error"
         /\ UNCHANGED <<stored, comments, offset, hasMore, loading, inflight,
                        loaded, lastFetch, sectionVars>>
         /\ UNCHANGED notCommentsVars
    ELSE /\ CanWrite
         /\ writes' = Append(writes, WriteCall("like", c.id, isLiked))
         /\ opsLeft' = opsLeft - 1
         /\ UNCHANGED <<stored, comments, offset, hasMore, loading, inflight,
                        toast, loaded, lastFetch, likes, newComment,
                        replyingTo, replyContent, editingId, editContent,
                        submitting>>
         /\ UNCHANGED notCommentsVars

\* insert into comments: the new row.
NewRow(parentId, userId) ==
  [id |-> Len(stored) + 1, parent_id |-> parentId,
   created_at |-> 1000 * (Len(stored) + 1), is_deleted |-> FALSE,
   user_id |-> userId, edited |-> FALSE]

\* Variant: the delete removes the rows it matches.
RowsAfter_HardDelete(w) ==
  CASE w.op \in {"submit", "reply"} -> Append(stored, NewRow(w.id, w.userId))
    [] w.op = "update" ->
         [k \in 1..Len(stored) |->
            IF stored[k].id = w.id /\ stored[k].user_id = w.userId
            THEN [stored[k] EXCEPT !.edited = TRUE] ELSE stored[k]]
    [] w.op = "delete" ->
         SelectSeq(stored,
                   LAMBDA row : ~(row.id = w.id /\ row.user_id = w.userId))
    [] OTHER -> stored

\* The comments table after the statement of a write: an insert, or an
\* update of the rows with .eq('id', commentId).eq('user_id', user.id).
RowsAfter(w) ==
  CASE w.op \in {"submit", "reply"} -> Append(stored, NewRow(w.id, w.userId))
    [] w.op = "update" ->
         [k \in 1..Len(stored) |->
            IF stored[k].id = w.id /\ stored[k].user_id = w.userId
            THEN [stored[k] EXCEPT !.edited = TRUE] ELSE stored[k]]
    [] w.op = "delete" ->
         [k \in 1..Len(stored) |->
            IF stored[k].id = w.id /\ stored[k].user_id = w.userId
            THEN [stored[k] EXCEPT !.is_deleted = TRUE] ELSE stored[k]]
    [] OTHER -> stored

\* The user's comment_likes rows after the statement of a write.
LikesAfter(w) ==
  IF w.op = "like"
  THEN IF w.isLiked THEN likes \ {w.id} ELSE likes \cup {w.id}
  ELSE likes

\* The backend runs the statement of a write; a second like of the same
\* comment by the same user is not inserted.
ServerApplies ==
  \E i \in 1..Len(writes) :
    /\ writes[i].stage = "sent"
    /\ ~(writes[i].op = "like" /\ ~writes[i].isLiked /\ writes[i].id \in likes)
    /\ stored' = RowsAfter(writes[i])
    /\ likes' = LikesAfter(writes[i])
    /\ writes' = [writes EXCEPT ![i].stage = "ok"]
    /\ UNCHANGED <<comments, offset, hasMore, loading, inflight, toast,
                   loaded, lastFetch, newComment, replyingTo, replyContent,
                   editingId, editContent, submitting, opsLeft>>
    /\ UNCHANGED notCommentsVars

\* The backend answers a write with an error, or the request fails.
ServerRejects ==
  \E i \in 1..Len(writes) :
    /\ writes[i].stage = "sent"
    /\ writes' = [writes EXCEPT ![i].stage = "failed"]
    /\ UNCHANGED <<stored, comments, offset, hasMore, loading, inflight,
                   toast, loaded, lastFetch, likes, newComment, replyingTo,
                   replyContent, editingId, editContent, submitting, opsLeft>>
    /\ UNCHANGED notCommentsVars

\* A write call whose handler resumes after its await.
Resumes(i, op) ==
  /\ writes[i].op = op
  /\ writes[i].stage \in {"ok", "failed"}
  /\ writes[i].stage = "ok" => Len(inflight) < MaxInflight

\* handleSubmit after its await: the draft is cleared, the success toast
\* shown, offset reset and the comments fetched again; or the error toast;
\* submitting is cleared either way.
SubmitReturn ==
  \E i \in 1..Len(writes) :
    /\ Resumes(i, "submit")
    /\ IF writes[i].stage = "ok"
       THEN /\ newComment' = ""
            /\ toast' = "success"
            /\ offset' = 0
            /\ inflight' = Append(inflight, FetchCall(FALSE))
       ELSE /\ toast' = "error"
            /\ UNCHANGED <<newComment, offset, inflight>>
    /\ submitting' = FALSE
    /\ writes' = RemoveAt(writes, i)
    /\ UNCHANGED <<stored, comments, hasMore, loading, loaded, lastFetch,
                   likes, replyingTo, replyContent, editingId, editContent,
                   opsLeft>>
    /\ UNCHANGED notCommentsVars

\* handleReplySubmit after its await.
ReplyReturn ==
  \E i \in 1..Len(writes) :
    /\ Resumes(i, "reply")
    /\ IF writes[i].stage = "ok"
       THEN /\ replyContent' = ""
            /\ replyingTo' = NoParent
            /\ toast' = "success"
            /\ inflight' = Append(inflight, FetchCall(FALSE))
       ELSE /\ toast' = "error"
            /\ UNCHANGED <<replyContent, replyingTo, inflight>>
    /\ submitting' = FALSE
    /\ writes' = RemoveAt(writes, i)
    /\ UNCHANGED <<stored, comments, offset, hasMore, loading, loaded,
                   lastFetch, likes, newComment, editingId, editContent,
                   opsLeft>>
    /\ UNCHANGED notCommentsVars

\* Variant: a failed update leaves edit mode and fetches the comments again.
UpdateReturn_GivesUpEdit ==
  \E i \in 1..Len(writes) :
    /\ writes[i].op = "update"
    /\ writes[i].stage \in {"ok", "failed"}
    /\ Len(inflight) < MaxInflight
    /\ editingId' = NoParent
    /\ editContent' = ""
    /\ toast' = IF writes[i].stage = "ok" THEN "success" ELSE "error"
    /\ inflight' = Append(inflight, FetchCall(FALSE))
    /\ writes' = RemoveAt(writes, i)
    /\ UNCHANGED <<stored, comments, offset, hasMore, loading, loaded,
                   lastFetch, likes, newComment, replyingTo, replyContent,
                   submitting, opsLeft>>
    /\ UNCHANGED notCommentsVars

\* handleUpdate after its await.
UpdateReturn ==
  \E i \in 1..Len(writes) :
    /\ Resumes(i, "update")
    /\ IF writes[i].stage = "ok"
       THEN /\ editingId' = NoParent
            /\ editContent' = ""
            /\ toast' = "success"
            /\ inflight' = Append(inflight, FetchCall(FALSE))
       ELSE /\ toast' = "error"
            /\ UNCHANGED <<editingId, editContent, inflight>>
    /\ writes' = RemoveAt(writes, i)
    /\ UNCHANGED <<stored, comments, offset, hasMore, loading, loaded,
                   lastFetch, likes, newComment, replyingTo, replyContent,
                   submitting, opsLeft>>
    /\ UNCHANGED notCommentsVars

\* handleDelete after its await.
DeleteReturn ==
  \E i \in 1..Len(writes) :
    /\ Resumes(i, "delete")
    /\ IF writes[i].stage = "ok"
       THEN /\ toast' = "success"
            /\ inflight' = Append(inflight, FetchCall(FALSE))
       ELSE /\ toast' = "error"
            /\ UNCHANGED inflight
    /\ writes' = RemoveAt(writes, i)
    /\ UNCHANGED <<stored, comments, offset, hasMore, loading, loaded,
                   lastFetch, likes, newComment, replyingTo, replyContent,
                   editingId, editContent, submitting, opsLeft>>
    /\ UNCHANGED notCommentsVars

\* handleLike after its await: the comments are fetched again, or the error
\* toast is shown.
LikeReturn ==
  \E i \in 1..Len(writes) :
    /\ Resumes(i, "like")
    /\ IF writes[i].stage = "ok"
       THEN /\ inflight' = Append(inflight, FetchCall(FALSE))
            /\ UNCHANGED toast
       ELSE /\ toast' = "error"
            /\ UNCHANGED inflight
    /\ writes' = RemoveAt(writes, i)
    /\ UNCHANGED <<stored, comments, offset, hasMore, loading, loaded,
                   lastFetch, likes, newComment, replyingTo, replyContent,
                   editingId, editContent, submitting, opsLeft>>
    /\ UNCHANGED notCommentsVars

InitSection ==
  /\ OrgIdle
  /\ SectionInit
  /\ \E u \in Users \cup {NoUser} : AuthSettled(u)
  /\ PagesIdle

NextSection ==
  \/ ServerSelect
  \/ ServerError
  \/ FetchReturn
  \/ FetchFail
  \/ TypeNewComment
  \/ handleReplyClick
  \/ CancelReply
  \/ StartEdit
  \/ CancelEdit
  \/ handleSubmit
  \/ handleReplySubmit
  \/ handleUpdate
  \/ handleDelete
  \/ handleLike
  \/ ServerApplies
  \/ ServerRejects
  \/ SubmitReturn
  \/ ReplyReturn
  \/ UpdateReturn
  \/ DeleteReturn
  \/ LikeReturn

SpecSection == InitSection /\ [][NextSection]_vars

\* ----------------------------------------- replies on a long comment list
MaxFill == 19

\* A post whose comments were all written through the section: comment 1,
\* comment 2 replying to it, comment 3 replying to comment 2, and then
\* fill top-level comments; a short list, or one longer than a page.
ReplyRows(fill) ==
  [k \in 1..(3 + fill) |->
     [id |-> k, parent_id |-> IF k \in {2, 3} THEN k - 1 ELSE NoParent,
      created_at |-> 1000 * k, is_deleted |-> FALSE, user_id |-> OtherUser,
      edited |-> FALSE]]

\* The section mounted on such a post: its effect has called
\* fetchComments().
RepliesInit ==
  /\ \E fill \in {0, 1, MaxFill - 1, MaxFill} : stored = ReplyRows(fill)
  /\ comments = <<>>
  /\ offset = 0
  /\ hasMore = FALSE
  /\ loading = TRUE
  /\ loaded = <<>>
  /\ inflight = <<FetchCall(FALSE)>>
  /\ toast = "none"
  /\ lastFetch = "none"
  /\ likes = {}
  /\ newComment = ""
  /\ replyingTo = NoParent
  /\ replyContent = ""
  /\ editingId = NoParent
  /\ editContent = ""
  /\ submitting = FALSE
  /\ writes = <<>>
  /\ opsLeft = MaxOps

InitReplies ==
  OrgIdle /\ RepliesInit /\ (\E u \in Users : AuthSettled(u)) /\ PagesIdle

\* A user who writes top-level comments and replies.
NextReplies ==
  \/ ServerSelect
  \/ ServerError
  \/ FetchReturn
  \/ FetchFail
  \/ TypeNewComment
  \/ handleReplyClick
  \/ CancelReply
  \/ handleSubmit
  \/ handleReplySubmit
  \/ ServerApplies
  \/ ServerRejects
  \/ SubmitReturn
  \/ ReplyReturn

SpecReplies == InitReplies /\ [][NextReplies]_vars

\* ------------------------------------------ the like button of a post
MaxClicks == 2
MaxLikeCalls == 2
MaxLikeFetches == 2

Max(a, b) == IF a >= b THEN a ELSE b

\* A call of fetchLikes() up to its first await: the count query is sent.
FetchLikesCall ==
  [pc |-> "count", count |-> 0, mine |-> FALSE, userId |-> authUser]

\* The detail page of a post once fetchPost has set post: the effect on
\* [post, user] has called fetchLikes(), the view count update is on its
\* way, likesCount and isLiked hold their initial values.
DetailInit ==
  /\ postLikes \in SUBSET (Users \cup {OtherUser})
  /\ likesCount = 0
  /\ liked = FALSE
  /\ likeCalls = <<>>
  /\ likeFetches = <<FetchLikesCall>>
  /\ viewCountPc = "sent"
  /\ clicksLeft = MaxClicks
  /\ likeFailed = FALSE
  /\ likeToast = "none"
  /\ likeAnimating = FALSE
  /\ animTimers = 0

\* The then of the view count update: setPost with a new object, so the
\* effect on [post, user] calls fetchLikes() again.
ViewCountUpdated ==
  /\ viewCountPc = "sent"
  /\ Len(likeFetches) < MaxLikeFetches
  /\ viewCountPc' = "done"
  /\ likeFetches' = Append(likeFetches, FetchLikesCall)
  /\ UNCHANGED <<postLikes, likesCount, liked, likeCalls, clicksLeft,
                 likeFailed, likeToast, likeAnimating, animTimers>>
  /\ UNCHANGED notDetailVars

\* handleLike of the detail page up to its await, for a logged-in user:
\* the animation starts and the delete or the insert is sent, chosen by
\* the isLiked of the render.
handleLikePost ==
  /\ authUser # NoUser
  /\ clicksLeft > 0
  /\ Len(likeCalls) < MaxLikeCalls
  /\ likeAnimating' = TRUE
  /\ animTimers' = animTimers + 1
  /\ likeCalls' = Append(likeCalls,
                         [op |-> IF liked THEN "delete" ELSE "insert",
                          userId |-> authUser, stage |-> "sent"])
  /\ clicksLeft' = clicksLeft - 1
  /\ UNCHANGED <<postLikes, likesCount, liked, likeFetches, viewCountPc,
                 likeFailed, likeToast>>
  /\ UNCHANGED notDetailVars

\* setTimeout(() => setLikeAnimating(false), 600) fires.
AnimationTimeout ==
  /\ animTimers > 0
  /\ animTimers' = animTimers - 1
  /\ likeAnimating' = FALSE
  /\ UNCHANGED <<postLikes, likesCount, liked, likeCalls, likeFetches,
                 viewCountPc, clicksLeft, likeFailed, likeToast>>
  /\ UNCHANGED notDetailVars

\* The backend runs the statement of a handleLike call: the delete removes
\* the user's row if there is one and succeeds either way; the insert of a
\* second row for the same post and user is answered with 23505.
LikesServerApplies ==
  \E i \in 1..Len(likeCalls) :
    LET c == likeCalls[i]
    IN /\ c.stage = "sent"
       /\ IF c.op = "delete"
          THEN /\ postLikes' = postLikes \ {c.userId}
               /\ likeCalls' = [likeCalls EXCEPT ![i].stage = "ok"]
          ELSE IF c.userId \in postLikes
          THEN /\ postLikes' = postLikes
               /\ likeCalls' = [likeCalls EXCEPT ![i].stage = "23505"]
          ELSE /\ postLikes' = postLikes \cup {c.userId}
               /\ likeCalls' = [likeCalls EXCEPT ![i].stage = "ok"]
       /\ UNCHANGED <<likesCount, liked, likeFetches, viewCountPc,
                      clicksLeft, likeFailed, likeToast, likeAnimating,
                      animTimers>>
       /\ UNCHANGED notDetailVars

\* The backend answers a handleLike call with another error, or the
\* request fails.
LikesServerRejects ==
  \E i \in 1..Len(likeCalls) :
    /\ likeCalls[i].stage = "sent"
    /\ likeCalls' = [likeCalls EXCEPT ![i].stage = "failed"]
    /\ likeFailed' = TRUE
    /\ UNCHANGED <<postLikes, likesCount, liked, likeFetches, viewCountPc,
                   clicksLeft, likeToast, likeAnimating, animTimers>>
    /\ UNCHANGED notDetailVars

\* handleLike of the detail page after its await: isLiked is set and
\* likesCount moved by one from its latest value, not below 0; on 23505
\* the toast and fetchLikes(); on another error the toast.
LikePostReturn ==
  \E i \in 1..Len(likeCalls) :
    LET c == likeCalls[i]
    IN /\ c.stage \in {"ok", "23505", "failed"}
       /\ c.stage = "23505" => Len(likeFetches) < MaxLikeFetches
       /\ CASE c.stage = "ok" /\ c.op = "delete" ->
                 /\ liked' = FALSE
                 /\ likesCount' = Max(0, likesCount - 1)
                 /\ UNCHANGED <<likeToast, likeFetches>>
            [] c.stage = "ok" /\ c.op = "insert" ->
                 /\ liked' = TRUE
                 /\ likesCount' = likesCount + 1
                 /\ UNCHANGED <<likeToast, likeFetches>>
            [] c.stage = "23505" ->
                 /\ likeToast' = "duplicate"
                 /\ likeFetches' = Append(likeFetches, FetchLikesCall)
                 /\ UNCHANGED <<liked, likesCount>>
            [] OTHER ->
                 /\ likeToast' = "error"
                 /\ UNCHANGED <<liked, likesCount, likeFetches>>
       /\ likeCalls' = RemoveAt(likeCalls, i)
       /\ UNCHANGED <<postLikes, viewCountPc, clicksLeft, likeFailed,
                      likeAnimating, animTimers>>
       /\ UNCHANGED notDetailVars

\* The backend runs the count query of a fetchLikes call.
LikesServerCounts ==
  \E i \in 1..Len(likeFetches) :
    /\ likeFetches[i].pc = "count"
    /\ likeFetches' = [likeFetches EXCEPT
         ![i].pc = "counted", ![i].count = Cardinality(postLikes)]
    /\ UNCHANGED <<postLikes, likesCount, liked, likeCalls, viewCountPc,
                   clicksLeft, likeFailed, likeToast, likeAnimating,
                   animTimers>>
    /\ UNCHANGED notDetailVars

\* fetchLikes after its first await: setLikesCount(count), and with a user
\* the query for the user's own row is sent.
fetchLikesCounted ==
  \E i \in 1..Len(likeFetches) :
    /\ likeFetches[i].pc = "counted"
    /\ likesCount' = likeFetches[i].count
    /\ likeFetches' = [likeFetches EXCEPT ![i].pc = "mine"]
    /\ UNCHANGED <<postLikes, liked, likeCalls, viewCountPc, clicksLeft,
                   likeFailed, likeToast, likeAnimating, animTimers>>
    /\ UNCHANGED notDetailVars

\* The backend runs the maybeSingle query for the user's own row.
LikesServerFindsMine ==
  \E i \in 1..Len(likeFetches) :
    /\ likeFetches[i].pc = "mine"
    /\ likeFetches' = [likeFetches EXCEPT
         ![i].pc = "found", ![i].mine = (likeFetches[i].userId \in postLikes)]
    /\ UNCHANGED <<postLikes, likesCount, liked, likeCalls, viewCountPc,
                   clicksLeft, likeFailed, likeToast, likeAnimating,
                   animTimers>>
    /\ UNCHANGED notDetailVars

\* The backend answers one of the two queries of fetchLikes with an error.
LikesServerFails ==
  \E i \in 1..Len(likeFetches) :
    /\ likeFetches[i].pc \in {"count", "mine"}
    /\ likeFetches' = [likeFetches EXCEPT ![i].pc = "failed"]
    /\ likeFailed' = TRUE
    /\ UNCHANGED <<postLikes, likesCount, liked, likeCalls, viewCountPc,
                   clicksLeft, likeToast, likeAnimating, animTimers>>
    /\ UNCHANGED notDetailVars

\* fetchLikes after its second await: setIsLiked(!!data).
fetchLikesReturn ==
  \E i \in 1..Len(likeFetches) :
    /\ likeFetches[i].pc = "found"
    /\ liked' = likeFetches[i].mine
    /\ likeFetches' = RemoveAt(likeFetches, i)
    /\ UNCHANGED <<postLikes, likesCount, likeCalls, viewCountPc,
                   clicksLeft, likeFailed, likeToast, likeAnimating,
                   animTimers>>
    /\ UNCHANGED notDetailVars

\* The catch of fetchLikes: the error is logged, nothing is shown.
fetchLikesCatch ==
  \E i \in 1..Len(likeFetches) :
    /\ likeFetches[i].pc = "failed"
    /\ likeFetches' = RemoveAt(likeFetches, i)
    /\ UNCHANGED <<postLikes, likesCount, liked, likeCalls, viewCountPc,
                   clicksLeft, likeFailed, likeToast, likeAnimating,
                   animTimers>>
    /\ UNCHANGED notDetailVars

InitDetail ==
  /\ OrgIdle
  /\ CommentsIdle
  /\ \E u \in Users : AuthSettled(u)
  /\ DetailInit
  /\ SearchIdle

NextDetail ==
  \/ ViewCountUpdated
  \/ handleLikePost
  \/ AnimationTimeout
  \/ LikesServerApplies
  \/ LikesServerRejects
  \/ LikePostReturn
  \/ LikesServerCounts
  \/ fetchLikesCounted
  \/ LikesServerFindsMine
  \/ LikesServerFails
  \/ fetchLikesReturn
  \/ fetchLikesCatch

SpecDetail == InitDetail /\ [][NextDetail]_vars

\* ------------------------------------------------------ the search bar
MaxTyped == 1

MAX_RECENT_SEARCHES == 5

\* A text is a sequence of characters: a space, or a character that
\* stands for a word (a positive number).
Space == 0

\* No navigate() call.
NoNav == <<>>

\* The words the user types; the stored lists hold the words
\* 1..MAX_RECENT_SEARCHES.
TypedWords == (MAX_RECENT_SEARCHES + 1)..(MAX_RECENT_SEARCHES + MaxTyped)

\* What the user may type into the input: nothing, a blank, a word, a
\* word after a blank.
TypedTexts ==
  {<<>>, <<Space>>} \cup {<<w>> : w \in TypedWords}
    \cup {<<Space, w>> : w \in TypedWords}

\* String.prototype.trim: the text without the spaces at its two ends.
RECURSIVE TrimStart(_)
TrimStart(t) ==
  IF t # <<>> /\ Head(t) = Space THEN TrimStart(Tail(t)) ELSE t

RECURSIVE TrimEnd(_)
TrimEnd(t) ==
  IF t # <<>> /\ t[Len(t)] = Space THEN TrimEnd(SubSeq(t, 1, Len(t) - 1))
  ELSE t

Trim(t) == TrimEnd(TrimStart(t))

\* The search bar mounted: the state of useState, before the effect that
\* loads the stored list; localStorage holds nothing or a list of at most
\* MAX_RECENT_SEARCHES distinct words.
SearchInit ==
  /\ query = <<>>
  /\ isFocused = FALSE
  /\ recentSearches = <<>>
  /\ selectedIndex = -1
  /\ \/ localStorage = NoItem
     \/ \E n \in 0..MAX_RECENT_SEARCHES :
          localStorage = Item([k \in 1..n |-> <<k>>])
  /\ inputFocus = FALSE
  /\ searchPc = "mounted"
  /\ navigated = NoNav

\* The effect of the mount: the stored list, if there is one, is parsed
\* and set.
LoadRecentSearches ==
  /\ searchPc = "mounted"
  /\ searchPc' = "ready"
  /\ recentSearches' = IF localStorage.has THEN localStorage.list ELSE <<>>
  /\ navigated' = NoNav
  /\ UNCHANGED <<query, isFocused, selectedIndex, localStorage, inputFocus>>
  /\ UNCHANGED notSearchVars

\* showDropdown
showDropdown == isFocused /\ Len(recentSearches) > 0 /\ query = <<>>

\* Variant: the new term is put in front without taking it out of the
\* list.
Updated_KeepsOld(searchQuery) ==
  SubSeq(<<searchQuery>> \o recentSearches, 1,
         Min(MAX_RECENT_SEARCHES, 1 + Len(recentSearches)))

\* saveRecentSearch: updated, the term in front of the others, cut to
\* MAX_RECENT_SEARCHES.
Updated(searchQuery) ==
  LET others == SelectSeq(recentSearches, LAMBDA x : x # searchQuery)
  IN SubSeq(<<searchQuery>> \o others, 1,
            Min(MAX_RECENT_SEARCHES, 1 + Len(others)))

\* handleSearch(searchQuery): nothing for a blank; otherwise the trimmed
\* term is saved in the state and in localStorage, the input is emptied,
\* the dropdown closed and the search page opened.
handleSearch(searchQuery) ==
  LET trimmed == Trim(searchQuery)
  IN IF trimmed = <<>>
     THEN /\ navigated' = NoNav
          /\ UNCHANGED <<recentSearches, localStorage, query, isFocused>>
     ELSE /\ recentSearches' = Updated(trimmed)
          /\ localStorage' = Item(Updated(trimmed))
          /\ query' = <<>>
          /\ isFocused' = FALSE
          /\ navigated' = trimmed

\* onFocus of the input.
onFocus ==
  /\ searchPc = "ready"
  /\ ~inputFocus
  /\ inputFocus' = TRUE
  /\ isFocused' = TRUE
  /\ navigated' = NoNav
  /\ UNCHANGED <<query, recentSearches, selectedIndex, localStorage,
                 searchPc>>
  /\ UNCHANGED notSearchVars

\* handleInputChange: the user edits the text of the focused input.
handleInputChange ==
  \E text \in TypedTexts :
    /\ searchPc = "ready"
    /\ inputFocus
    /\ text # query
    /\ query' = text
    /\ selectedIndex' = -1
    /\ navigated' = NoNav
    /\ UNCHANGED <<isFocused, recentSearches, localStorage, inputFocus,
                   searchPc>>
    /\ UNCHANGED notSearchVars

\* handleKeyDown: a key pressed in the focused input.
handleKeyDown ==
  \E key \in {"Enter", "ArrowDown", "ArrowUp", "Escape"} :
    /\ searchPc = "ready"
    /\ inputFocus
    /\ CASE key = "Enter" ->
              /\ IF selectedIndex >= 0 /\ selectedIndex < Len(recentSearches)
                 THEN handleSearch(recentSearches[selectedIndex + 1])
                 ELSE handleSearch(query)
              /\ UNCHANGED <<selectedIndex, inputFocus>>
         [] key = "ArrowDown" ->
              /\ selectedIndex' =
                   IF selectedIndex < Len(recentSearches) - 1
                   THEN selectedIndex + 1 ELSE selectedIndex
              /\ navigated' = NoNav
              /\ UNCHANGED <<query, isFocused, recentSearches, localStorage,
                             inputFocus>>
         [] key = "ArrowUp" ->
              /\ selectedIndex' =
                   IF selectedIndex > -1 THEN selectedIndex - 1 ELSE -1
              /\ navigated' = NoNav
              /\ UNCHANGED <<query, isFocused, recentSearches, localStorage,
                             inputFocus>>
         [] OTHER ->
              /\ isFocused' = FALSE
              /\ inputFocus' = FALSE
              /\ navigated' = NoNav
              /\ UNCHANGED <<query, recentSearches, selectedIndex,
                             localStorage>>
    /\ UNCHANGED searchPc
    /\ UNCHANGED notSearchVars

\* handleClickOutside: a mousedown outside the component, which also takes
\* the focus from the input.
handleClickOutside ==
  /\ searchPc = "ready"
  /\ isFocused \/ inputFocus
  /\ isFocused' = FALSE
  /\ inputFocus' = FALSE
  /\ navigated' = NoNav
  /\ UNCHANGED <<query, recentSearches, selectedIndex, localStorage,
                 searchPc>>
  /\ UNCHANGED notSearchVars

\* onClick of an entry of the dropdown: handleSearch(search); the click
\* takes the focus from the input.
ClickRecentSearch ==
  \E i \in 1..Len(recentSearches) :
    /\ searchPc = "ready"
    /\ showDropdown
    /\ handleSearch(recentSearches[i])
    /\ inputFocus' = FALSE
    /\ UNCHANGED <<selectedIndex, searchPc>>
    /\ UNCHANGED notSearchVars

\* removeRecentSearch: the X button of an entry of the dropdown.
removeRecentSearch ==
  \E i \in 1..Len(recentSearches) :
    LET updated ==
          SelectSeq(recentSearches, LAMBDA x : x # recentSearches[i])
    IN /\ searchPc = "ready"
       /\ showDropdown
       /\ recentSearches' = updated
       /\ localStorage' = Item(updated)
       /\ inputFocus' = FALSE
       /\ navigated' = NoNav
       /\ UNCHANGED <<query, isFocused, selectedIndex, searchPc>>
       /\ UNCHANGED notSearchVars

\* The X button of the input, rendered while query is not empty:
\* setQuery('') and inputRef.current.focus(), whose onFocus sets isFocused.
ClearQuery ==
  /\ searchPc = "ready"
  /\ query # <<>>
  /\ query' = <<>>
  /\ inputFocus' = TRUE
  /\ isFocused' = TRUE
  /\ navigated' = NoNav
  /\ UNCHANGED <<recentSearches, selectedIndex, localStorage, searchPc>>
  /\ UNCHANGED notSearchVars

InitSearch ==
  OrgIdle /\ CommentsIdle /\ AuthIdle /\ DetailIdle /\ SearchInit

NextSearch ==
  \/ LoadRecentSearches
  \/ onFocus
  \/ handleInputChange
  \/ handleKeyDown
  \/ handleClickOutside
  \/ ClickRecentSearch
  \/ removeRecentSearch
  \/ ClearQuery

SpecSearch == InitSearch /\ [][NextSearch]_vars

\* ------------------------------------------------- observing the forest
InputIds == Range([i \in 1..Len(flatComments) |-> flatComments[i].id])

Resolves(pid) == pid # NoParent /\ pid \in InputIds

RecordOf(id) ==
  flatComments[CHOOSE i \in 1..Len(flatComments) : flatComments[i].id = id]

\* The ids at nesting level k of the returned forest: level 0 is the
\* returned array, level k + 1 the replies of the nodes at level k.
RECURSIVE LevelIds(_, _)
LevelIds(f, k) ==
  IF k = 0 THEN Range(f.rootComments)
  ELSE UNION {Range(f.commentMap[x].replies) : x \in LevelIds(f, k - 1)}

ForestIds(f) == UNION {LevelIds(f, k) : k \in 0..Cardinality(DOMAIN f.commentMap)}

CountIn(s, x) == Cardinality({i \in 1..Len(s) : s[i] = x})

RECURSIVE SumOver(_, _, _)
SumOver(f, S, x) ==
  IF S = {} THEN 0
  ELSE LET y == CHOOSE z \in S : TRUE
       IN CountIn(f.commentMap[y].replies, x) + SumOver(f, S \ {y}, x)

\* How often id x occurs in the forest: in the returned array and in the
\* replies of the nodes reachable from it.
Occurrences(f, x) == CountIn(f.rootComments, x) + SumOver(f, ForestIds(f), x)

\* The parent_id links from the comment reach, within fuel steps, a comment
\* with no parent_id or with a parent_id that is not in the input.
RECURSIVE ChainEnds(_, _)
ChainEnds(id, fuel) ==
  \/ ~Resolves(RecordOf(id).parent_id)
  \/ fuel > 0 /\ ChainEnds(RecordOf(id).parent_id, fuel - 1)

\* min(d, 2) for d the number of parent_id links that resolve in the input,
\* starting from the comment.
ClampedDistance(id) ==
  IF ~Resolves(RecordOf(id).parent_id) THEN 0
  ELSE IF ~Resolves(RecordOf(RecordOf(id).parent_id).parent_id) THEN 1
  ELSE 2

Done == orgPc = "done"

DescendingByDate(f, s) ==
  \A i, j \in 1..Len(s) :
    i < j => f.commentMap[s[i]].created_at >= f.commentMap[s[j]].created_at

\* A chain c1 <- c2 <- ... <- cn whose records are the ids 1..n, 1 a root.
IsChain(n) ==
  /\ Len(flatComments) = n
  /\ InputIds = 1..n
  /\ \A i \in 1..n : flatComments[i].parent_id = flatComments[i].id - 1

\* ---------------------------------------------------------------- claims
\* C1: every node's depth equals min(d, 2), d being the number of parent_id
\* links followed from the comment until one with no resolvable parent
\* (stated for the comments whose chain of links ends).
C1_DepthIsClampedDistance ==
  Done => \A id \in InputIds :
            ChainEnds(id, Len(flatComments)) =>
              organized.commentMap[id].depth = ClampedDistance(id)

\* C2: every input id occurs exactly once in the forest reachable from the
\* returned roots, so the forest has as many nodes as the input has records.
C2_EveryIdOnce ==
  Done => \A id \in InputIds : Occurrences(organized, id) = 1

\* C3: every node's depth field equals its nesting level in the forest, and
\* no node is nested more than 2 levels below a root.
C3_DepthIsNestingLevel ==
  Done => \A k \in 0..Len(flatComments) :
            \A id \in LevelIds(organized, k) :
              k <= 2 /\ organized.commentMap[id].depth = k

\* C4: a comment with no parent_id, or whose parent_id is not an id of the
\* input, is in the returned root list exactly once, with depth 0, and in no
\* node's replies.
C4_UnresolvedIsRoot ==
  Done => \A i \in 1..Len(flatComments) :
            ~Resolves(flatComments[i].parent_id) =>
              /\ CountIn(organized.rootComments, flatComments[i].id) = 1
              /\ organized.commentMap[flatComments[i].id].depth = 0
              /\ \A x \in InputIds :
                   CountIn(organized.commentMap[x].replies,
                           flatComments[i].id) = 0

C4_Witness ==
  /\ Done
  /\ Len(flatComments) = 3
  /\ flatComments[2].parent_id = Missing
  /\ flatComments[3].parent_id = flatComments[2].id
  /\ flatComments[2].id \in Range(organized.rootComments)
  /\ organized.commentMap[flatComments[2].id].replies = <<flatComments[3].id>>

C6_ChainOfFour ==
  (Done /\ IsChain(4)) =>
     /\ organized.commentMap[1].depth = 0
     /\ organized.commentMap[2].depth = 1
     /\ organized.commentMap[3].depth = 2
     /\ organized.commentMap[4].depth = 2
     /\ CountIn(organized.commentMap[2].replies, 4) = 1
     /\ CountIn(organized.commentMap[3].replies, 4) = 0

\* The input [c1, c2, c3] of C7: a chain given oldest first, created_at
\* increasing from c1 to c3.
IsChainOfThreeOldestFirst ==
  /\ IsChain(3)
  /\ \A i \in 1..3 : flatComments[i].id = i
  /\ flatComments[1].created_at < flatComments[2].created_at
  /\ flatComments[2].created_at < flatComments[3].created_at

C9_DepthInRange ==
  Done => \A id \in InputIds : organized.commentMap[id].depth \in {0, 1, 2}

C9_Witness ==
  /\ Done
  /\ IsChain(4)
  /\ \A i \in 1..4 : flatComments[i].id = i
  /\ organized.commentMap[3].depth = 2
  /\ organized.commentMap[4].depth = 2

\* The input with every is_deleted flag cleared.
Undeleted(flat) == [i \in 1..Len(flat) |-> [flat[i] EXCEPT !.is_deleted = FALSE]]

\* The arrays and depths of a forest, without the records' own fields.
Shape(f) ==
  [rootComments |-> f.rootComments,
   nodes |-> [x \in DOMAIN f.commentMap |->
                [replies |-> f.commentMap[x].replies,
                 depth |-> f.commentMap[x].depth]]]

\* C10: the forest does not depend on the is_deleted flags: every record,
\* deleted or not, is a node that keeps its flag, and the arrays and depths
\* are those built from the same input with no record deleted.
C10_DeletedKeepPosition ==
  Done => /\ DOMAIN organized.commentMap = InputIds
          /\ \A id \in InputIds :
               organized.commentMap[id].is_deleted = RecordOf(id).is_deleted
          /\ Shape(organized) = Shape(organizeComments(Undeleted(flatComments)))

C10_Witness ==
  /\ Done
  /\ Len(flatComments) = 3
  /\ flatComments[1].is_deleted
  /\ flatComments[1].parent_id = NoParent
  /\ flatComments[2].parent_id = flatComments[1].id
  /\ ~flatComments[2].is_deleted
  /\ organized.commentMap[flatComments[1].id].replies = <<flatComments[2].id>>
  /\ organized.commentMap[flatComments[1].id].is_deleted

\* C8: after a load-more fetch returns, the displayed forest is
\* organizeComments applied to all the records loaded so far, the earlier
\* pages followed by the new page.
C8_LoadMoreRebuildsAll ==
  lastFetch = "more" => comments = Display(organizeComments(loaded))

\* The value returned is a forest: every node reachable from the returned
\* array is reached in exactly one way.
ReturnedIsForest(f) ==
  /\ Range(f.rootComments) \subseteq InputIds
  /\ \A id \in ForestIds(f) :
       /\ Range(f.commentMap[id].replies) \subseteq InputIds
       /\ Occurrences(f, id) = 1

\* A call is between its start and its return.
Running == orgPc \in {"index", "attach", "sort"}

\* C16: every call of organizeComments comes to its return, whatever the
\* parent_id values are (unresolvable, the comment itself, a cycle), and
\* what it returns is a forest, the one the three passes build.
C16_TerminatesWithForest ==
  /\ Running ~> Done
  /\ [](Done => /\ ReturnedIsForest(organized)
                /\ organized = organizeComments(flatComments))

C16_Witness ==
  /\ Done
  /\ Len(flatComments) = 3
  /\ flatComments[1].parent_id = flatComments[1].id
  /\ flatComments[2].parent_id = flatComments[3].id
  /\ flatComments[3].parent_id = flatComments[2].id
  /\ organized.rootComments = <<>>

Current == flatComments[orgI]

Processing == orgPc = "attach" /\ orgI <= Len(flatComments)

\* Where C18 puts the current comment: the parent's parent if the parent's
\* depth, as it is now, is at least 1 and the parent's parent_id resolves,
\* the parent otherwise.
C18Target ==
  LET parent == organized.commentMap[Current.parent_id]
  IN IF parent.depth >= 1 /\ Resolves(parent.parent_id)
     THEN parent.parent_id
     ELSE Current.parent_id

\* C18: when a comment whose parent resolves is processed, it is pushed into
\* the replies of the parent's parent exactly if the parent's depth at that
\* moment is at least 1 and the parent's parent_id resolves, and into the
\* replies of its parent otherwise; no other array changes.
C18_GrandparentRule ==
  [][(Processing /\ Resolves(Current.parent_id)) =>
       /\ organized'.rootComments = organized.rootComments
       /\ \A x \in InputIds :
            organized'.commentMap[x].replies =
              IF x = C18Target
              THEN Append(organized.commentMap[x].replies, Current.id)
              ELSE organized.commentMap[x].replies]_vars

C18_Witness ==
  /\ orgPc = "attach"
  /\ orgI = 4
  /\ IsChain(3)
  /\ flatComments[1].id = 1
  /\ flatComments[2].id = 2
  /\ organized.commentMap[1].replies = <<2, 3>>
  /\ organized.commentMap[2].replies = <<>>

\* C13: at a protected path the wrapped page is rendered only if loading is
\* false and user is not null; while loading is true the loading screen is
\* what is produced, and with loading false and no user the redirect.
C13_PageOnlyForUser ==
  location.pathname \in Protected =>
     /\ rendered = "children" => (~authLoading /\ authUser # NoUser)
     /\ authLoading => rendered = "loading"
     /\ (~authLoading /\ authUser = NoUser) => rendered = "redirect"

C13_Witness ==
  /\ location.pathname = "/mypage"
  /\ rendered = "children"
  /\ authUser # NoUser
  /\ authProfile = NoProfile
  /\ getSessionPc = "done"

\* C14: the redirect of a protected path p leads to /login with p as from,
\* and a login started on the login page reached that way navigates, when
\* it succeeds, to p.
C14_LoginReturnsToWanted ==
  [][/\ rendered = "redirect" =>
          /\ location.pathname = wanted
          /\ location' = [pathname |-> "/login", from |-> wanted]
     /\ (loginCall.pc = "ok" /\ loginCall'.pc = "idle"
           /\ loginCall.wanted # "none") =>
          location'.pathname = loginCall.wanted]_vars

C14_Witness ==
  /\ lastCall = "login ok"
  /\ loginCall.pc = "idle"
  /\ loginCall.wanted = "/write"
  /\ location.pathname = "/write"
  /\ rendered = "children"

\* C15: while loading is true, user and profile are both null.
C15_NothingLoadedWhileLoading ==
  authLoading => (authUser = NoUser /\ authProfile = NoProfile)

\* C11: whenever a refresh has returned, whatever calls were issued before
\* or after it, the displayed list is the forest built from its response:
\* the response that arrived last is the one shown.
C11_LastArrivedIsShown ==
  lastFetch = "refresh" => comments = Display(organizeComments(loaded))

\* All responses have arrived, that of the fetch issued after a successful
\* write first and that of the mount's fetch, selected before the write,
\* last: the list shown lacks the new row.
C11_Witness ==
  /\ inflight = <<>>
  /\ writes = <<>>
  /\ toast = "success"
  /\ lastFetch = "refresh"
  /\ Len(loaded) < Len(stored)
  /\ comments = Display(organizeComments(loaded))

\* C19: when a writing handler resumes after a failed call, the displayed
\* list, the drafts, the reply target and the edit target stay as they are
\* and no fetch is issued.
C19_FailedWriteChangesNothing ==
  [][\A i \in 1..Len(writes) :
       (writes[i].stage = "failed" /\ writes' = RemoveAt(writes, i)) =>
          /\ comments' = comments
          /\ newComment' = newComment
          /\ replyingTo' = replyingTo
          /\ replyContent' = replyContent
          /\ editingId' = editingId
          /\ editContent' = editContent
          /\ inflight' = inflight
          /\ stored' = stored]_vars

C19_Witness ==
  /\ toast = "error"
  /\ lastFetch = "refresh"
  /\ editingId # NoParent
  /\ editContent = "text"
  /\ writes = <<>>
  /\ inflight = <<>>
  /\ opsLeft < MaxOps

StoredIds(rows) == {rows[k].id : k \in 1..Len(rows)}

\* C20: no step removes a comment row, and the statement of a delete only
\* sets is_deleted on the rows with the comment's id and the user's id.
C20_DeleteKeepsRows ==
  [][/\ StoredIds(stored) \subseteq StoredIds(stored')
     /\ \A i \in 1..Len(writes) :
          (writes[i].op = "delete" /\ writes[i].stage = "sent"
             /\ Len(writes') = Len(writes) /\ writes'[i].stage = "ok") =>
            /\ Len(stored') = Len(stored)
            /\ \A k \in 1..Len(stored) :
                 stored'[k] =
                   IF stored[k].id = writes[i].id
                      /\ stored[k].user_id = writes[i].userId
                   THEN [stored[k] EXCEPT !.is_deleted = TRUE]
                   ELSE stored[k]]_vars

C20_Witness ==
  /\ Len(stored) = 1
  /\ stored[1].is_deleted
  /\ lastFetch = "refresh"
  /\ Len(comments) = 1
  /\ comments[1].is_deleted
  /\ toast = "success"


---------------------------------------------------------------------------
\* C12: an operation whose remote call failed shows exactly one error
\* notification and no success notification, and takes no further step.
\* Stated for the two authentication operations of this specification:
\* when handleLogin or handleLogout resumes after a failed call, the
\* error count goes up by one, the success count stays, and neither the
\* location nor the user changes.
FailedCallResumes ==
  \/ loginCall.pc = "error" /\ loginCall'.pc = "idle"
  \/ logoutPc \in {"error", "threw"} /\ logoutPc' = "idle"

C12_FailureShowsOneError ==
  [][FailedCallResumes =>
       /\ notice'.error = notice.error + 1
       /\ notice'.success = notice.success
       /\ location' = location
       /\ authUser' = authUser]_vars

---------------------------------------------------------------------------
\* The comments displayed, each with the place it is displayed at: the
\* positions from the list down to the comment.
RECURSIVE ShownAt(_, _)
ShownAt(trees, path) ==
  UNION {{[at |-> Append(path, i), id |-> trees[i].id]}
           \cup ShownAt(trees[i].replies, Append(path, i)) :
         i \in 1..Len(trees)}

TimesShown(id) == Cardinality({s \in ShownAt(comments, <<>>) : s.id = id})

\* C21: with an unchanging set of comments, once the fetches issued have
\* returned, the records displayed are the first records of the newest-first
\* list, each exactly once: no record is shown twice and none is skipped.
C21_PagesShownOnceInOrder ==
  (inflight = <<>> /\ ~loading) =>
    \E n \in 0..Len(stored) :
      \A k \in 1..Len(stored) :
        TimesShown(NewestFirst(stored)[k].id) = IF k <= n THEN 1 ELSE 0

---------------------------------------------------------------------------
\* C22: whenever no profile fetch is pending (and no auth event or sign-out
\* is still being handled), the profile held is null if user is null, and
\* otherwise is not the profile of another user: a profile fetched for an
\* earlier session does not stay in place after a sign-out or a switch of
\* user.
C22_ProfileIsOfCurrentUser ==
  (profileFetches = <<>> /\ authEvents = <<>> /\ logoutPc = "idle"
     /\ getSessionPc # "pending") =>
    IF authUser = NoUser THEN authProfile = NoProfile
    ELSE authProfile \in {NoProfile, authUser}

---------------------------------------------------------------------------
\* C25: once the getSession call of the mount effect has resolved, loading
\* eventually becomes false, with or without a session, whether the profile
\* fetch it starts brings data or an error.
C25_LoadingEnds == (getSessionPc = "done") ~> ~authLoading

C25_Witness ==
  /\ getSessionPc = "done"
  /\ session # NoUser
  /\ authUser = session
  /\ authProfile = NoProfile
  /\ profileFetches = <<>>
  /\ authEvents = <<>>
  /\ lastCall = "none"
  /\ ~authLoading

---------------------------------------------------------------------------
\* The number of comments above the row with this id along parent_id.
RECURSIVE AncestorsOf(_, _, _)
AncestorsOf(rows, id, fuel) ==
  LET at == {k \in 1..Len(rows) : rows[k].id = id}
      pid == IF at = {} THEN NoParent ELSE rows[CHOOSE k \in at : TRUE].parent_id
  IN IF fuel = 0 \/ pid = NoParent \/ ~(\E k \in 1..Len(rows) : rows[k].id = pid)
     THEN 0
     ELSE 1 + AncestorsOf(rows, pid, fuel - 1)

\* C24: after any top-level comments and replies submitted through the
\* section, every stored comment has at most 2 ancestors along its
\* parent_id chain.
C24_AtMostTwoAncestors ==
  \A k \in 1..Len(stored) : AncestorsOf(stored, stored[k].id, Len(stored)) <= 2

---------------------------------------------------------------------------
\* C23: on the detail page, once every request has been answered (none of
\* them with a failure) the likesCount displayed is the number of like
\* rows stored for the post, whatever clicks were made while earlier
\* requests were in flight.
C23_CountIsStoredLikes ==
  (likeCalls = <<>> /\ likeFetches = <<>> /\ viewCountPc = "done"
     /\ ~likeFailed) =>
    likesCount = Cardinality(postLikes)

---------------------------------------------------------------------------
NoTermTwice(list) ==
  \A i, j \in 1..Len(list) : list[i] = list[j] => i = j

\* C26: once the stored list is loaded, after any searches and removals
\* the recent-searches list holds at most MAX_RECENT_SEARCHES terms, no
\* term twice, and localStorage holds the same list as the state.
C26_RecentSearchesKept ==
  searchPc = "ready" =>
    /\ Len(recentSearches) <= MAX_RECENT_SEARCHES
    /\ NoTermTwice(recentSearches)
    /\ IF localStorage.has THEN localStorage.list = recentSearches
       ELSE recentSearches = <<>>

\* A new word searched with a full list, and then a word of the list
\* searched again.
C26_Witness ==
  /\ Len(recentSearches) = MAX_RECENT_SEARCHES
  /\ navigated = <<2>>
  /\ recentSearches[1] = <<2>>
  /\ \E i \in 2..Len(recentSearches) :
       recentSearches[i] = <<MAX_RECENT_SEARCHES + 1>>
  /\ localStorage = Item(recentSearches)

\* C27: Enter pressed while the input holds a typed query that is not
\* blank searches for that query, trimmed: the navigation of such a step
\* is never to another term.
C27_EnterSearchesTyped ==
  [][(Trim(query) # <<>> /\ navigated' # NoNav) =>
       navigated' = Trim(query)]_vars

====
